---- MODULE Spec2Model ----
(***************************************************************************)
(* Model of the dubbing backend: the Job state machine (models/job.py),    *)
(* the pipeline orchestrator (services/dubbing.py), the job endpoints      *)
(* (api/v1/endpoints/dubbing.py) and the ethics ledger (services/ethics.py,*)
(* models/ethics.py).                                                      *)
(*                                                                         *)
(* Conventions.  A Python Optional is a sequence: <<>> is None and <<v>>   *)
(* is the value v.  A float progress p is the integer 10*p (tenths).  A    *)
(* dict filled in a loop is the sequence of its [key, value] items in      *)
(* insertion order.  Timestamps are values of the clock `now`.             *)
(*                                                                         *)
(* A task is followed from one point where other requests can be served or *)
(* the database read to the next: the commit after job.start(), and every  *)
(* awaited adapter call.  The endpoints run on the same event loop and     *)
(* have no await between reading the job and committing.                   *)
(***************************************************************************)
EXTENDS Integers, Sequences, FiniteSets, TLC

VARIABLES
    job,          \* the persisted Job row
    now,          \* datetime.utcnow()
    last,         \* outcome of the last call made on the job or the API
    project,      \* the owning Project row
    consents,     \* ConsentRecord rows of the project
    provenance,   \* ProvenanceRecord rows of the project, oldest first
    watermarks,   \* WatermarkRecord rows of the project, oldest first
    files,        \* paths that exist on the file system
    runs,         \* background tasks process_dubbing_job(job.id) not yet returned
    finished      \* what the task that returned last did: outcome, stage, adapter calls

vars == <<job, now, last, project, consents, provenance, watermarks, files, runs, finished>>

-----------------------------------------------------------------------------
(* Bounds of the model *)

MaxTime == 2
MaxRuns == 2
MaxConsents == 1

(* Program constants *)

DEFAULT_MAX_RETRIES == 3

-----------------------------------------------------------------------------
(* Python values *)

None == <<>>
Some(v) == <<v>>

Max(a, b) == IF a >= b THEN a ELSE b
Min(a, b) == IF a <= b THEN a ELSE b

\* truth value of `if d:` for an Optional dict d
Truthy(d) == d # None /\ DOMAIN d[1] # {}

-----------------------------------------------------------------------------
(* models/job.py *)

PENDING == "pending"
RUNNING == "running"
COMPLETED == "completed"
FAILED == "failed"
CANCELLED == "cancelled"
RETRYING == "retrying"

JobStatus == {PENDING, RUNNING, COMPLETED, FAILED, CANCELLED, RETRYING}

\* Job(...) as create_dubbing_job constructs it: the Column defaults
NewJob(target_languages) ==
    [ input_data |-> [video_path |-> [base |-> "video", ext |-> ".mp4"],
                      target_languages |-> target_languages],
      status |-> PENDING,
      progress |-> 0,
      error_message |-> None,
      retry_count |-> 0,
      max_retries |-> DEFAULT_MAX_RETRIES,
      output_data |-> None,
      quality_metrics |-> None,
      started_at |-> None,
      completed_at |-> None,
      actual_duration |-> None ]

is_active(j) == j.status \in {PENDING, RUNNING, RETRYING}

is_completed_never(j) == FALSE

is_completed(j) == j.status = COMPLETED

has_failed(j) == j.status = FAILED

can_retry_le(j) == j.retry_count <= j.max_retries /\ j.status = FAILED

can_retry_any_status(j) == j.retry_count < j.max_retries

can_retry(j) == j.retry_count < j.max_retries /\ j.status = FAILED

start_keep_status(j, t) == [j EXCEPT !.started_at = Some(t)]

start(j, t) ==
    [j EXCEPT !.status = RUNNING,
              !.started_at = Some(t)]

complete(j, output_data, quality_metrics, t) ==
    LET j1 == [j EXCEPT !.status = COMPLETED,
                        !.progress = 10,
                        !.completed_at = Some(t)]
        j2 == IF Truthy(output_data)
              THEN [j1 EXCEPT !.output_data = output_data] ELSE j1
        j3 == IF Truthy(quality_metrics)
              THEN [j2 EXCEPT !.quality_metrics = quality_metrics] ELSE j2
    IN  IF j3.started_at # None
        THEN [j3 EXCEPT !.actual_duration = Some(t - j3.started_at[1])]
        ELSE j3

fail_no_message(j, error_message, t) == [j EXCEPT !.status = FAILED]

fail_keep_status(j, error_message, t) == [j EXCEPT !.error_message = Some(error_message)]

fail(j, error_message, t) ==
    LET j1 == [j EXCEPT !.status = FAILED,
                        !.error_message = Some(error_message)]
    IN  IF j1.started_at # None
        THEN [j1 EXCEPT !.actual_duration = Some(t - j1.started_at[1])]
        ELSE j1

retry_keep_message(j, t) ==
    [j EXCEPT !.status = RETRYING,
              !.retry_count = j.retry_count + 1]

\* retry() past its can_retry check
retry(j, t) ==
    [j EXCEPT !.status = RETRYING,
              !.retry_count = j.retry_count + 1,
              !.error_message = None]

\* cancel() past its is_completed check
cancel(j, t) ==
    [j EXCEPT !.status = CANCELLED]

update_progress(j, progress, t) ==
    [j EXCEPT !.progress = Max(0, Min(10, progress))]

-----------------------------------------------------------------------------
(* Inputs of direct calls on a Job *)

Messages == {"boom"}

\* progress arguments in tenths: below 0.0, in range, above 1.0
ProgressArgs == {-1, 0, 2, 6, 10, 11}

OutputArgs == {None, Some(<<>>), Some([videos |-> <<"es">>, quality_metrics |-> <<"es">>])}

MetricArgs == {None, Some([es |-> "ok"])}

Returned(op) == [op |-> op, raised |-> FALSE]
Raised(op) == [op |-> op, raised |-> TRUE]

Ledger == <<project, consents, provenance, watermarks, files>>
Tasks == <<runs, finished>>

Tick ==
    /\ now < MaxTime
    /\ now' = now + 1
    /\ UNCHANGED <<job, last, Ledger, Tasks>>

JobStart ==
    /\ job' = start(job, now)
    /\ last' = Returned("start")
    /\ UNCHANGED <<now, Ledger, Tasks>>

JobComplete ==
    \E o \in OutputArgs, q \in MetricArgs :
        /\ job' = complete(job, o, q, now)
        /\ last' = Returned("complete")
        /\ UNCHANGED <<now, Ledger, Tasks>>

JobFail ==
    \E m \in Messages :
        /\ job' = fail(job, m, now)
        /\ last' = Returned("fail")
        /\ UNCHANGED <<now, Ledger, Tasks>>

JobRetry ==
    /\ IF can_retry(job)
       THEN job' = retry(job, now) /\ last' = Returned("retry")
       ELSE job' = job /\ last' = Raised("retry")
    /\ UNCHANGED <<now, Ledger, Tasks>>

JobCancel ==
    /\ IF is_completed(job)
       THEN job' = job /\ last' = Raised("cancel")
       ELSE job' = cancel(job, now) /\ last' = Returned("cancel")
    /\ UNCHANGED <<now, Ledger, Tasks>>

JobUpdateProgress ==
    \E p \in ProgressArgs :
        /\ job' = update_progress(job, p, now)
        /\ last' = Returned("update_progress")
        /\ UNCHANGED <<now, Ledger, Tasks>>

\* process_dubbing_job(job_id) for an id that has no Job row, lines 104-107:
\* the query gives None, the error is logged and the coroutine returns None
ProcessMissingJob ==
    /\ last' = Returned("process_dubbing_job")
    /\ UNCHANGED <<job, now, Ledger, Tasks>>

-----------------------------------------------------------------------------
(* models/ethics.py, services/ethics.py *)

\* the id of the project of the model, and of another project
ProjectId == "project"
OtherProjectId == "other"

NewConsent(expiry_date) ==
    [ project_id |-> ProjectId,
      is_granted |-> FALSE,
      granted_at |-> None,
      revoked_at |-> None,
      expiry_date |-> expiry_date,
      is_verified |-> FALSE ]

consent_is_active_ignores_revoked(c, t) ==
    c.is_granted /\ (c.expiry_date = None \/ t <= c.expiry_date[1])

consent_is_active(c, t) ==
    IF ~c.is_granted \/ c.revoked_at # None
    THEN FALSE
    ELSE IF c.expiry_date # None /\ t > c.expiry_date[1]
         THEN FALSE
         ELSE TRUE

grant_consent(c, t) == [c EXCEPT !.is_granted = TRUE, !.granted_at = Some(t)]

revoke_consent(c, t) == [c EXCEPT !.is_granted = FALSE, !.revoked_at = Some(t)]

verify(c) == [c EXCEPT !.is_verified = TRUE]

ProjectRows_all(rows, project_id) == rows

\* .filter(Record.project_id == project_id)
ProjectRows(rows, project_id) == SelectSeq(rows, LAMBDA c : c.project_id = project_id)

check_consent_status_granted_only(cs, t) ==
    LET granted == SelectSeq(cs, LAMBDA c : c.is_granted)
    IN  [ has_consent |-> Len(granted) > 0, consent_count |-> Len(granted) ]

check_consent_status(cs, t) ==
    LET granted == SelectSeq(cs, LAMBDA c : c.is_granted)
        active == SelectSeq(granted, LAMBDA c : consent_is_active(c, t))
    IN  [ has_consent |-> Len(active) > 0, consent_count |-> Len(active) ]

\* a path is os.path.splitext(path): the base name and the extension
Path(base) == [base |-> base, ext |-> ".mp4"]

VideoPath == Path("video")

WatermarkedPath_same(p) == p

\* _apply_watermark_to_file: f"{base_name}_watermarked{ext}"
WatermarkedPath(p) == [p EXCEPT !.base = p.base \o "_watermarked"]

NewProvenance(content_path, processing_chain) ==
    [ content_path |-> content_path,
      processing_chain |-> processing_chain,
      models_used |-> <<>>,
      c2pa_manifest |-> Some("manifest"),
      c2pa_signature |-> Some("signature"),
      human_review |-> FALSE ]

add_processing_step_replace(r, step_name, model_name, language) ==
    [r EXCEPT !.processing_chain =
                  <<[step |-> step_name, model |-> model_name, language |-> language]>>]

add_processing_step(r, step_name, model_name, language) ==
    [r EXCEPT !.processing_chain =
                  Append(r.processing_chain,
                         [step |-> step_name, model |-> model_name, language |-> language]),
              !.models_used =
                  IF \E n \in 1..Len(r.models_used) : r.models_used[n] = model_name
                  THEN r.models_used
                  ELSE Append(r.models_used, model_name)]

update_provenance_record_skip(ps, step_name, model_name, language) == ps

\* update_provenance_record: the step goes to the record created last, if any
update_provenance_record(ps, step_name, model_name, language) ==
    IF ps = <<>>
    THEN ps
    ELSE [ps EXCEPT ![Len(ps)] = add_processing_step(ps[Len(ps)], step_name, model_name, language)]

NewWatermark_measured(watermarked_path) ==
    [ content_path |-> watermarked_path,
      watermark_type |-> "invisible",
      watermark_method |-> "LSB",
      psnr |-> Some(40),
      ssim |-> Some(100),
      is_detectable |-> TRUE ]

\* the WatermarkRecord apply_watermark adds: psnr and ssim are not set
NewWatermark(watermarked_path) ==
    [ content_path |-> watermarked_path,
      watermark_type |-> "invisible",
      watermark_method |-> "LSB",
      psnr |-> None,
      ssim |-> None,
      is_detectable |-> TRUE ]

-----------------------------------------------------------------------------
(* services/dubbing.py: process_dubbing_job *)

\* dicts whose values matter: sequences of [key, value], in insertion order
DictKeys(d) == [n \in 1..Len(d) |-> d[n].key]

DictHas(d, k) == \E n \in 1..Len(d) : d[n].key = k

DictPut_replace(d, k, v) == <<[key |-> k, value |-> v]>>

DictPut(d, k, v) ==
    IF DictHas(d, k)
    THEN [n \in 1..Len(d) |-> IF d[n].key = k THEN [key |-> k, value |-> v] ELSE d[n]]
    ELSE Append(d, [key |-> k, value |-> v])

Range(s) == {s[n] : n \in 1..Len(s)}

ConsentMessage == "Consent required but not provided"
FileMessage == "Content file not found"
AdapterMessages == {"adapter error", "timeout"}

\* the target_languages a DubbingRequest accepts: 1..10 valid codes, repeats allowed
LanguageLists == {<<"es">>, <<"es", "fr">>, <<"fr", "fr">>}

NewRun ==
    [ pc |-> "queued",
      i |-> 0,
      translations |-> <<>>,
      audio_files |-> <<>>,
      animated_videos |-> <<>>,
      calls |-> <<>> ]

Call(stage, lang) == [stage |-> stage, lang |-> lang]

\* the run has finished: the task leaves the event loop
Finished(outcome, stage, r) == [outcome |-> outcome, stage |-> stage, calls |-> r.calls]

RemoveAt(s, k) == [n \in 1..(Len(s) - 1) |-> IF n < k THEN s[n] ELSE s[n + 1]]

apply_watermark_unchecked(st, content_path) ==
    [st EXCEPT !.files = @ \cup {WatermarkedPath(content_path)},
               !.watermarks = Append(@, NewWatermark(WatermarkedPath(content_path))),
               !.returned = Some(WatermarkedPath(content_path))]

\* apply_watermark on the ledger state st = [watermarks, files, ...]
apply_watermark(st, content_path) ==
    IF content_path \notin st.files
    THEN [st EXCEPT !.error = Some(FileMessage)]
    ELSE [st EXCEPT !.files = @ \cup {WatermarkedPath(content_path)},
                    !.watermarks = Append(@, NewWatermark(WatermarkedPath(content_path))),
                    !.returned = Some(WatermarkedPath(content_path))]

\* _run_quality_checks: one mock result per video
run_quality_checks_first(videos) ==
    IF videos = <<>> THEN <<>> ELSE <<[key |-> videos[1].key, value |-> "mock"]>>

\* _run_quality_checks: one mock result per video, nothing is compared
run_quality_checks(videos) ==
    [n \in 1..Len(videos) |-> [key |-> videos[n].key, value |-> "mock"]]

\* _apply_ethical_safeguards from the n-th video on
RECURSIVE apply_ethical_safeguards(_, _, _, _)
apply_ethical_safeguards(p, videos, n, st) ==
    IF n > Len(videos) \/ st.error # None
    THEN st
    ELSE LET lang == videos[n].key
             st1 == IF p.enable_watermarking
                    THEN apply_watermark(st, videos[n].value)
                    ELSE [st EXCEPT !.returned = Some(videos[n].value)]
         IN  IF st1.error # None
             THEN st1
             ELSE apply_ethical_safeguards(p, videos, n + 1,
                      [st1 EXCEPT !.provenance =
                                      update_provenance_record(@, "face_animation", "DAE-Talker", lang),
                                  !.final_videos = DictPut(@, lang, st1.returned[1])])

\* lines 104-111: the task starts, job.start() is committed
RunStart(k) ==
    /\ runs[k].pc = "queued"
    /\ job' = start(job, now)
    /\ runs' = [runs EXCEPT ![k].pc = "ethics"]
    /\ UNCHANGED <<now, last, Ledger, finished>>

\* the except clause, lines 157-160: job.fail(str(e)), and the task returns
RunFails(k, stage, message) ==
    /\ job' = fail(job, message, now)
    /\ runs' = RemoveAt(runs, k)
    /\ finished' = Some(Finished("failed", stage, runs[k]))

\* the adapter request that is awaited next is sent
Await(k, r, stage, n, lang) ==
    runs' = [runs EXCEPT ![k] = [r EXCEPT !.pc = stage, !.i = n,
                                          !.calls = Append(r.calls, Call(stage, lang))]]

\* _run_ethics_checks, then _run_asr up to its await
RunEthics(k) ==
    /\ runs[k].pc = "ethics"
    /\ IF project.require_consent
          /\ ~check_consent_status(ProjectRows(consents, ProjectId), now).has_consent
       THEN /\ RunFails(k, "ethics", ConsentMessage)
            /\ UNCHANGED <<now, last, Ledger>>
       ELSE IF job.input_data.video_path \notin files
            THEN /\ RunFails(k, "ethics", FileMessage)
                 /\ UNCHANGED <<now, last, Ledger>>
            ELSE /\ provenance' = Append(provenance,
                        NewProvenance(job.input_data.video_path,
                                      <<[step |-> "ethics_check", model |-> "none", language |-> "none"]>>))
                 /\ Await(k, runs[k], "asr", 0, "none")
                 /\ UNCHANGED <<job, now, last, project, consents, watermarks, files, finished>>

\* the ASR response: lines 216-217, 120-121, then _run_translation up to its await
AsrReturn(k) ==
    /\ runs[k].pc = "asr"
    /\ \/ \E m \in AdapterMessages :
            /\ RunFails(k, "asr", m)
            /\ UNCHANGED <<now, last, Ledger>>
       \/ /\ job' = update_progress(job, 2, now)
          /\ Await(k, runs[k], "translation", 1, job.input_data.target_languages[1])
          /\ UNCHANGED <<now, last, Ledger, finished>>

\* a translation response: lines 240-243, 125-126, then _run_voice_synthesis up to its await
TranslationReturn(k) ==
    /\ runs[k].pc = "translation"
    /\ \/ \E m \in AdapterMessages :
            /\ RunFails(k, "translation", m)
            /\ UNCHANGED <<now, last, Ledger>>
       \/ LET r == runs[k]
              tl == job.input_data.target_languages
              translations == DictPut(r.translations, tl[r.i], "translation")
              r1 == [r EXCEPT !.translations = translations]
          IN  /\ IF r.i < Len(tl)
                 THEN /\ Await(k, r1, "translation", r.i + 1, tl[r.i + 1])
                      /\ job' = job
                 ELSE /\ job' = update_progress(job, 4, now)
                      /\ Await(k, r1, "tts", 1, translations[1].key)
              /\ UNCHANGED <<now, last, Ledger, finished>>

\* a synthesis response: lines 271-274, 130-131, then _run_face_animation up to its await
TtsReturn(k) ==
    /\ runs[k].pc = "tts"
    /\ \/ \E m \in AdapterMessages :
            /\ RunFails(k, "tts", m)
            /\ UNCHANGED <<now, last, Ledger>>
       \/ LET r == runs[k]
              audio_files == DictPut(r.audio_files, r.translations[r.i].key, "audio")
              r1 == [r EXCEPT !.audio_files = audio_files]
          IN  /\ IF r.i < Len(r.translations)
                 THEN /\ Await(k, r1, "tts", r.i + 1, r.translations[r.i + 1].key)
                      /\ job' = job
                 ELSE /\ job' = update_progress(job, 6, now)
                      /\ Await(k, r1, "face_animation", 1, audio_files[1].key)
              /\ UNCHANGED <<now, last, Ledger, finished>>

\* an animation response: lines 299-302, 135-136; the service has written the
\* output video where this host sees it, or has not
AnimateReturn(k) ==
    /\ runs[k].pc = "face_animation"
    /\ \/ \E m \in AdapterMessages :
            /\ RunFails(k, "face_animation", m)
            /\ UNCHANGED <<now, last, Ledger>>
       \/ \E written \in BOOLEAN :
            LET r == runs[k]
                lang == r.audio_files[r.i].key
                out == Path("out_" \o lang)
                r1 == [r EXCEPT !.animated_videos = DictPut(r.animated_videos, lang, out)]
            IN  /\ files' = IF written THEN files \cup {out} ELSE files
                /\ IF r.i < Len(r.audio_files)
                   THEN /\ Await(k, r1, "face_animation", r.i + 1, r.audio_files[r.i + 1].key)
                        /\ job' = job
                   ELSE /\ job' = update_progress(job, 8, now)
                        /\ runs' = [runs EXCEPT ![k] = [r1 EXCEPT !.pc = "postprocess"]]
                /\ UNCHANGED <<now, last, project, consents, provenance, watermarks, finished>>

\* lines 138-153: quality checks, ethical safeguards, update_progress(1.0), complete
RunPostprocess(k) ==
    /\ runs[k].pc = "postprocess"
    /\ LET r == runs[k]
           quality_results == run_quality_checks(r.animated_videos)
           st == apply_ethical_safeguards(project, r.animated_videos, 1,
                     [ watermarks |-> watermarks, provenance |-> provenance, files |-> files,
                       final_videos |-> <<>>, returned |-> None, error |-> None ])
       IN  /\ watermarks' = st.watermarks
           /\ provenance' = st.provenance
           /\ files' = st.files
           /\ IF st.error # None
              THEN RunFails(k, "postprocess", st.error[1])
              ELSE /\ job' = complete(update_progress(job, 10, now),
                                      Some([videos |-> st.final_videos,
                                            quality_metrics |-> quality_results]),
                                      Some(quality_results), now)
                   /\ runs' = RemoveAt(runs, k)
                   /\ finished' = Some(Finished("completed", "none", r))
           /\ UNCHANGED <<now, last, project, consents>>

-----------------------------------------------------------------------------
(* api/v1/endpoints/dubbing.py *)

\* POST /jobs/{job_id}/cancel
cancel_dubbing_job ==
    /\ IF ~is_active(job)
       THEN job' = job
       ELSE IF is_completed(job)
            THEN job' = job
            ELSE job' = cancel(job, now)
    /\ UNCHANGED <<now, last, Ledger, Tasks>>

\* POST /jobs/{job_id}/retry
retry_dubbing_job ==
    /\ Len(runs) < MaxRuns
    /\ IF ~can_retry(job)
       THEN /\ job' = job
            /\ runs' = runs
       ELSE /\ job' = retry(job, now)
            /\ runs' = Append(runs, NewRun)
    /\ UNCHANGED <<now, last, Ledger, finished>>

-----------------------------------------------------------------------------
(* the ledger's consent operations, called from outside the pipeline *)

\* no expiry date, or one that has passed when the job is submitted
ExpiryArgs == {None, Some(0)}

create_consent_record ==
    /\ Len(consents) < MaxConsents
    /\ \E e \in ExpiryArgs : consents' = Append(consents, NewConsent(e))
    /\ UNCHANGED <<job, now, last, project, provenance, watermarks, files, Tasks>>

GrantConsent ==
    \E n \in 1..Len(consents) :
        /\ consents' = [consents EXCEPT ![n] = grant_consent(consents[n], now)]
        /\ UNCHANGED <<job, now, last, project, provenance, watermarks, files, Tasks>>

RevokeConsent ==
    \E n \in 1..Len(consents) :
        /\ consents' = [consents EXCEPT ![n] = revoke_consent(consents[n], now)]
        /\ UNCHANGED <<job, now, last, project, provenance, watermarks, files, Tasks>>

-----------------------------------------------------------------------------
(* Specifications *)

DRAFT == "draft"

NewProject(require_consent, enable_watermarking) ==
    [ require_consent |-> require_consent,
      enable_watermarking |-> enable_watermarking,
      enable_provenance |-> TRUE,
      status |-> DRAFT,
      progress |-> 0,
      completed_at |-> None ]

\* a Job alone, no task running
InitJob ==
    /\ job = NewJob(<<"es">>)
    /\ now = 0
    /\ last = Returned("create")
    /\ project = NewProject(TRUE, TRUE)
    /\ consents = <<>>
    /\ provenance = <<>>
    /\ watermarks = <<>>
    /\ files = {VideoPath}
    /\ runs = <<>>
    /\ finished = None

NextJob ==
    \/ Tick
    \/ JobStart
    \/ JobComplete
    \/ JobFail
    \/ JobRetry
    \/ JobCancel
    \/ JobUpdateProgress
    \/ ProcessMissingJob

\* a Job driven by arbitrary calls of its methods, and tasks for ids without a row
SpecJob == InitJob /\ [][NextJob]_vars

\* the clock when the job is submitted; the pipeline is followed at that instant
SubmittedAt == 1

\* after POST /process: the project and the job are created, the video is saved,
\* the task is added
Init ==
    /\ \E tl \in LanguageLists : job = NewJob(tl)
    /\ now = SubmittedAt
    /\ last = Returned("create_dubbing_job")
    /\ \E rc \in BOOLEAN, wm \in BOOLEAN : project = NewProject(rc, wm)
    /\ consents = <<>>
    /\ provenance = <<>>
    /\ watermarks = <<>>
    /\ files = {VideoPath}
    /\ runs = <<NewRun>>
    /\ finished = None

\* a step of one of the job's tasks
TaskStarts == \E k \in 1..Len(runs) : RunStart(k)
EthicsChecked == \E k \in 1..Len(runs) : RunEthics(k)
AsrReturns == \E k \in 1..Len(runs) : AsrReturn(k)
TranslationReturns == \E k \in 1..Len(runs) : TranslationReturn(k)
TtsReturns == \E k \in 1..Len(runs) : TtsReturn(k)
AnimateReturns == \E k \in 1..Len(runs) : AnimateReturn(k)
Postprocessed == \E k \in 1..Len(runs) : RunPostprocess(k)

Next ==
    \/ TaskStarts
    \/ EthicsChecked
    \/ AsrReturns
    \/ TranslationReturns
    \/ TtsReturns
    \/ AnimateReturns
    \/ Postprocessed
    \/ cancel_dubbing_job
    \/ retry_dubbing_job
    \/ create_consent_record
    \/ GrantConsent
    \/ RevokeConsent

\* the job of one submission, its tasks, the endpoints and the ledger
Spec == Init /\ [][Next]_vars

\* the task steps are taken as long as one is possible: the event loop runs every
\* task that is ready, and every awaited adapter call returns or times out
TaskStep ==
    \/ TaskStarts
    \/ EthicsChecked
    \/ AsrReturns
    \/ TranslationReturns
    \/ TtsReturns
    \/ AnimateReturns
    \/ Postprocessed

\* the consent request of the submission: the project's first record
FirstConsent ==
    /\ consents = <<>>
    /\ create_consent_record

NextLive ==
    \/ TaskStep
    \/ cancel_dubbing_job
    \/ retry_dubbing_job
    \/ FirstConsent
    \/ GrantConsent
    \/ RevokeConsent

\* the job of one submission whose tasks are run by the event loop
SpecLive == Init /\ [][NextLive]_vars /\ WF_vars(TaskStep)

-----------------------------------------------------------------------------
(* direct calls of the ledger: services/ethics.py *)

MaxWatermarks == 2
MaxProvenance == 2
MaxSteps == 2

ReturnedValue(op, arg, value) == [op |-> op, raised |-> FALSE, arg |-> arg, returned |-> value]
RaisedFor(op, arg) == [op |-> op, raised |-> TRUE, arg |-> arg, returned |-> None]

\* ConsentRecord.verify(verified_by, method)
VerifyConsent ==
    \E n \in 1..Len(consents) :
        /\ consents' = [consents EXCEPT ![n] = verify(consents[n])]
        /\ UNCHANGED <<job, now, last, project, provenance, watermarks, files, Tasks>>

\* EthicsService.create_consent_record for another project
CreateOtherConsent ==
    /\ Len(consents) < MaxConsents
    /\ \E e \in ExpiryArgs :
          consents' = Append(consents, [NewConsent(e) EXCEPT !.project_id = OtherProjectId])
    /\ UNCHANGED <<job, now, last, project, provenance, watermarks, files, Tasks>>

\* EthicsService.check_consent_status(project_id)
CheckConsentStatus ==
    \E project_id \in {ProjectId, OtherProjectId} :
        /\ last' = ReturnedValue("check_consent_status", project_id,
                                 check_consent_status(ProjectRows(consents, project_id), now))
        /\ UNCHANGED <<job, now, Ledger, Tasks>>

\* a project with no ledger record yet
InitEthics ==
    /\ job = NewJob(<<"es">>)
    /\ now = 0
    /\ last = Returned("create")
    /\ project = NewProject(TRUE, TRUE)
    /\ consents = <<>>
    /\ provenance = <<>>
    /\ watermarks = <<>>
    /\ files = {VideoPath}
    /\ runs = <<>>
    /\ finished = None

NextConsent ==
    \/ Tick
    \/ create_consent_record
    \/ CreateOtherConsent
    \/ GrantConsent
    \/ RevokeConsent
    \/ VerifyConsent
    \/ CheckConsentStatus

\* the consent records of a project under arbitrary calls, as time passes
SpecConsent == InitEthics /\ [][NextConsent]_vars

\* content paths given to the ledger: the upload, its watermarked copy, no file
ContentArgs == {VideoPath, WatermarkedPath(VideoPath), Path("missing")}

\* EthicsService.apply_watermark(project_id, content_path)
ApplyWatermark ==
    \E content_path \in ContentArgs :
        LET st == apply_watermark(
                      [ watermarks |-> watermarks, provenance |-> provenance, files |-> files,
                        final_videos |-> <<>>, returned |-> None, error |-> None ],
                      content_path)
        IN  /\ Len(watermarks) < MaxWatermarks
            /\ watermarks' = st.watermarks
            /\ files' = st.files
            /\ last' = IF st.error # None
                       THEN RaisedFor("apply_watermark", content_path)
                       ELSE ReturnedValue("apply_watermark", content_path, st.returned[1])
            /\ UNCHANGED <<job, now, project, consents, provenance, Tasks>>

ChainArgs == {<<>>, <<[step |-> "ethics_check", model |-> "none", language |-> "none"]>>}

\* EthicsService.create_provenance_record(project_id, content_path, processing_chain):
\* _calculate_file_hash opens the file
CreateProvenanceRecord ==
    \E content_path \in ContentArgs, processing_chain \in ChainArgs :
        /\ Len(provenance) < MaxProvenance
        /\ IF content_path \notin files
           THEN /\ provenance' = provenance
                /\ last' = RaisedFor("create_provenance_record", content_path)
           ELSE /\ provenance' = Append(provenance, NewProvenance(content_path, processing_chain))
                /\ last' = ReturnedValue("create_provenance_record", content_path, Len(provenance) + 1)
        /\ UNCHANGED <<job, now, project, consents, watermarks, files, Tasks>>

StepArgs == {"asr", "face_animation"}

\* EthicsService.update_provenance_record(project_id, processing_step)
UpdateProvenanceRecord ==
    \E step \in StepArgs :
        /\ provenance # <<>> => Len(provenance[Len(provenance)].processing_chain) < MaxSteps
        /\ provenance' = update_provenance_record(provenance, step, "DAE-Talker", "es")
        /\ last' = ReturnedValue("update_provenance_record", step, None)
        /\ UNCHANGED <<job, now, project, consents, watermarks, files, Tasks>>

NextLedger ==
    \/ ApplyWatermark
    \/ CreateProvenanceRecord
    \/ UpdateProvenanceRecord

\* the watermark and provenance records of a project under arbitrary calls
SpecLedger == InitEthics /\ [][NextLedger]_vars

-----------------------------------------------------------------------------
(* Properties *)

Terminal == {COMPLETED, FAILED, CANCELLED}

Active == {k \in 1..Len(runs) : runs[k].pc # "queued"}

StageIndex(stage) ==
    CASE stage = "ethics" -> 0
      [] stage = "asr" -> 1
      [] stage = "translation" -> 2
      [] stage = "tts" -> 3
      [] stage = "face_animation" -> 4
      [] stage = "postprocess" -> 5

\* a consent record that is granted, not revoked and not past its expiry date
HasActiveConsent ==
    \E n \in 1..Len(consents) :
        /\ consents[n].is_granted
        /\ consents[n].revoked_at = None
        /\ consents[n].expiry_date = None \/ now <= consents[n].expiry_date[1]

\* a task has returned in this step, having failed
TaskFailed ==
    /\ Len(runs') < Len(runs)
    /\ finished' # None
    /\ finished'[1].outcome = "failed"

\* C1: once the status is completed or cancelled, no later step changes it
C1_TerminalStatusImmutable ==
    [][job.status \in {COMPLETED, CANCELLED} => job'.status = job.status]_vars

\* C2: retry() succeeds exactly when status is failed and retry_count < max_retries;
\* then status is retrying, retry_count is one more and error_message is cleared;
\* otherwise it raises and the job is unchanged
C2_RetryContract ==
    [][JobRetry =>
          IF job.status = FAILED /\ job.retry_count < job.max_retries
          THEN /\ ~last'.raised
               /\ job'.status = RETRYING
               /\ job'.retry_count = job.retry_count + 1
               /\ job'.error_message = None
          ELSE /\ last'.raised
               /\ job'.status = job.status
               /\ job'.retry_count = job.retry_count
               /\ job'.error_message = job.error_message]_vars

\* C2: retry() has been refused on a failed job that has used up its retries
C2_Witness ==
    /\ last = Raised("retry")
    /\ job.status = FAILED
    /\ job.max_retries = 3
    /\ job.retry_count = 3

\* C3: when a run fails at a stage, the job is failed with the message recorded and
\* no output, and the run has invoked no adapter of a later stage
C3_FailStops ==
    [][TaskFailed =>
          /\ job'.status = FAILED
          /\ job'.error_message # None
          /\ job'.error_message[1] \in AdapterMessages \cup {ConsentMessage, FileMessage}
          /\ job'.output_data = None
          /\ \A n \in 1..Len(finished'[1].calls) :
                StageIndex(finished'[1].calls[n].stage) <= StageIndex(finished'[1].stage)]_vars

\* C3: recognition has timed out: the job is failed, only recognition was invoked
C3_Witness ==
    /\ finished = Some([outcome |-> "failed", stage |-> "asr", calls |-> <<Call("asr", "none")>>])
    /\ job.status = FAILED
    /\ job.error_message = Some("timeout")
    /\ job.output_data = None

\* C4: a completed job has an output video for every target language, and a job
\* whose last run failed is not completed
C4_AllOrNothing ==
    /\ job.status = COMPLETED =>
          /\ job.output_data # None
          /\ \A n \in 1..Len(job.input_data.target_languages) :
                DictHas(job.output_data[1].videos, job.input_data.target_languages[n])
    /\ (finished # None /\ finished[1].outcome = "failed") => job.status # COMPLETED

\* C4: synthesis has failed for the second of two target languages
C4_Witness ==
    /\ job.input_data.target_languages = <<"es", "fr">>
    /\ finished # None
    /\ finished[1].outcome = "failed"
    /\ finished[1].stage = "tts"
    /\ finished[1].calls[Len(finished[1].calls)] = Call("tts", "fr")
    /\ job.status = FAILED
    /\ job.output_data = None

\* C5: a pre-check made while the project requires consent and no consent is active
\* fails the job with the consent message, and the run invokes no adapter
C5_ConsentPreCheck ==
    [][\A k \in 1..Len(runs) :
          (RunEthics(k) /\ project.require_consent /\ ~HasActiveConsent) =>
              /\ job'.status = FAILED
              /\ job'.error_message = Some(ConsentMessage)
              /\ Len(runs') = Len(runs) - 1
              /\ finished' = Some([outcome |-> "failed", stage |-> "ethics", calls |-> <<>>])]_vars

\* C5: the pre-check has failed on a consent that is granted but no longer active
C5_Witness ==
    /\ project.require_consent
    /\ consents # <<>>
    /\ consents[1].is_granted
    /\ ~HasActiveConsent
    /\ finished = Some([outcome |-> "failed", stage |-> "ethics", calls |-> <<>>])
    /\ job.status = FAILED
    /\ job.error_message = Some(ConsentMessage)

\* C6 as stated: with consent required and no ConsentRecord, the job is never running
C6_NeverRunning ==
    (project.require_consent /\ consents = <<>>) => job.status # RUNNING

\* C6 as amended: with consent required and no ConsentRecord, the task first sets the
\* job to running, and the pre-check then fails the job with the consent message
C6_RunningThenFailed ==
    [][\A k \in 1..Len(runs) :
          /\ (RunStart(k) /\ project.require_consent /\ consents = <<>>) =>
                 /\ job'.status = RUNNING
                 /\ job'.started_at = Some(now)
          /\ (RunEthics(k) /\ project.require_consent /\ consents = <<>>) =>
                 /\ job.started_at # None
                 /\ job'.status = FAILED
                 /\ job'.error_message = Some(ConsentMessage)]_vars

\* C6: the job is running, its pre-check pending, with no ConsentRecord
C6_Witness ==
    /\ project.require_consent
    /\ consents = <<>>
    /\ job.status = RUNNING
    /\ Len(runs) = 1
    /\ runs[1].pc = "ethics"

\* C7: at most one task of the job is executing
C7_OneExecution == Cardinality(Active) <= 1 /\ Len(runs) <= 1

\* C7: the task of a retry is executing while the job has been cancelled
C7_Witness ==
    /\ job.retry_count >= 1
    /\ job.status = CANCELLED
    /\ Cardinality(Active) = 1
    /\ runs[1].pc = "tts"

AdapterStages == {"asr", "translation", "tts", "face_animation"}

\* C8: once the job is cancelled while a task awaits an adapter, that task starts
\* no further adapter call
C8_NoCallAfterCancel ==
    [][\A k \in 1..Len(runs) :
          (job.status = CANCELLED /\ runs[k].pc \in AdapterStages /\ Len(runs') = Len(runs)) =>
              runs'[k].calls = runs[k].calls]_vars

\* C9: progress does not decrease while the job is not terminal
C9_ProgressMonotone ==
    [][(job.status \notin Terminal /\ job'.status \notin Terminal) =>
          job'.progress >= job.progress]_vars

\* C10: 0 <= retry_count <= max_retries
C10_RetryBound == 0 <= job.retry_count /\ job.retry_count <= job.max_retries

\* C10: the last retry the bound allows has been made
C10_Witness ==
    /\ job.status = RETRYING
    /\ job.retry_count = job.max_retries
    /\ job.max_retries = DEFAULT_MAX_RETRIES

\* no adapter is invoked twice for the same language by the run r
NoRepeatedCall(r) ==
    \A a, b \in 1..Len(r.calls) : a # b => r.calls[a] # r.calls[b]

\* a task is added only by a retry that succeeds on a failed job
RunOnlyAfterRetry ==
    Len(runs') > Len(runs) =>
        /\ job.status = FAILED
        /\ job'.status = RETRYING
        /\ job'.retry_count = job.retry_count + 1

\* C11: within a run each adapter is invoked at most once per target language, a
\* task is added only by a successful retry() of a failed job, and the job is
\* executed at most 1 + max_retries times
C11_NoAutomaticRetry ==
    [][/\ \A k \in 1..Len(runs') : NoRepeatedCall(runs'[k])
       /\ RunOnlyAfterRetry
       /\ 1 + job'.retry_count <= 1 + job'.max_retries]_vars

\* the calls of the run r are in the order of the stages
StageOrder(r) ==
    \A a, b \in 1..Len(r.calls) :
        a < b => StageIndex(r.calls[a].stage) <= StageIndex(r.calls[b].stage)

\* the dict d has an item for every target language
Covers(d, target_languages) ==
    \A n \in 1..Len(target_languages) : DictHas(d, target_languages[n])

\* the progress stored when the stage before `stage` is done
ProgressAt(stage) ==
    CASE stage = "translation" -> 2
      [] stage = "tts" -> 4
      [] stage = "face_animation" -> 6
      [] stage = "postprocess" -> 8

\* C12: a run's adapter calls follow the order of the stages, a stage is entered
\* only with a result of the preceding stage for every target language, and the
\* job's progress changes only when the run leaves a stage, all languages done
C12_StagesSequential ==
    [][\A k \in 1..Len(runs) :
          Len(runs') = Len(runs) =>
              LET r == runs[k]
                  r1 == runs'[k]
                  tl == job.input_data.target_languages
              IN  /\ StageOrder(r1)
                  /\ r1.pc = "tts" => Covers(r1.translations, tl)
                  /\ r1.pc = "face_animation" =>
                         Covers(r1.translations, tl) /\ Covers(r1.audio_files, tl)
                  /\ r1.pc = "postprocess" =>
                         Covers(r1.audio_files, tl) /\ Covers(r1.animated_videos, tl)
                  /\ r1.pc = r.pc => job'.progress = job.progress
                  /\ (r1.pc # r.pc /\ r1.pc \in {"translation", "tts", "face_animation", "postprocess"}) =>
                         job'.progress = ProgressAt(r1.pc)]_vars

\* C12: both translations have returned, progress is 0.4, the first synthesis is awaited
C12_Witness ==
    /\ Len(runs) = 1
    /\ runs[1].pc = "tts"
    /\ runs[1].calls = <<Call("asr", "none"), Call("translation", "es"),
                         Call("translation", "fr"), Call("tts", "es")>>
    /\ job.status = RUNNING
    /\ job.progress = 4

\* C13: start() on a pending or retrying job sets running and stamps started_at;
\* in any other status it leaves the job unchanged
C13_StartGuard ==
    [][JobStart =>
          IF job.status \in {PENDING, RETRYING}
          THEN job'.status = RUNNING /\ job'.started_at = Some(now)
          ELSE job' = job]_vars

\* C14: complete() on a job that is not running does not set it to completed
C14_CompleteGuard ==
    [][JobComplete =>
          (job.status \notin {RUNNING, COMPLETED} => job'.status # COMPLETED)]_vars

\* C15: fail() on a completed or cancelled job changes neither the status nor the
\* message; on any other job it sets failed and records the message
C15_FailGuard ==
    [][JobFail =>
          IF job.status \in {COMPLETED, CANCELLED}
          THEN job'.status = job.status /\ job'.error_message = job.error_message
          ELSE job'.status = FAILED /\ job'.error_message # None]_vars

\* C16: a job becomes cancelled from pending or running only
C16_CancelledFrom ==
    [][(job'.status = CANCELLED /\ job.status # CANCELLED) =>
          job.status \in {PENDING, RUNNING}]_vars

\* C17: cancel() on a completed job raises and changes no field of the job
C17_CancelCompleted ==
    [][(JobCancel /\ job.status = COMPLETED) =>
          last'.raised /\ job' = job]_vars

\* C17: cancel() has been refused on a completed job that has its outputs
C17_Witness ==
    /\ last = Raised("cancel")
    /\ job.status = COMPLETED
    /\ job.progress = 10
    /\ job.output_data # None

\* C18: update_progress() stores a value in [0,1] and changes nothing else on a
\* job that is not terminal, and changes nothing on a terminal job
C18_UpdateProgressContract ==
    [][JobUpdateProgress =>
          IF job.status \in Terminal
          THEN job' = job
          ELSE /\ job'.progress \in 0..10
               /\ job' = [job EXCEPT !.progress = job'.progress]]_vars

\* C19: in every committed state, a completed job has progress 1.0
C19_CompletedProgress ==
    job.status = COMPLETED => job.progress = 10

\* C19: the task has returned having completed the job, stored at progress 1.0
C19_Witness ==
    /\ job.status = COMPLETED
    /\ job.progress = 10
    /\ runs = <<>>
    /\ finished # None
    /\ finished[1].outcome = "completed"

\* C20: process_dubbing_job for an id without a Job row raises to its caller and
\* changes no Job, Project or Ledger record
C20_MissingJobRaises ==
    [][ProcessMissingJob =>
          /\ last'.raised
          /\ UNCHANGED <<job, project, consents, provenance, watermarks>>]_vars

\* C21: a task that has returned leaves the job completed or failed, never running;
\* a failure raised in any stage is recorded by fail(); and every task returns,
\* provided its steps are taken
C21_RunTerminates ==
    /\ [](runs = <<>> => job.status \in {COMPLETED, FAILED})
    /\ [][TaskFailed => job'.status = FAILED /\ job'.error_message # None]_vars
    /\ (runs # <<>>) ~> (runs = <<>>)

\* C21: post-processing has raised (no file to watermark) and the job is failed
C21_Witness ==
    /\ runs = <<>>
    /\ finished # None
    /\ finished[1].outcome = "failed"
    /\ finished[1].stage = "postprocess"
    /\ job.status = FAILED
    /\ job.error_message = Some(FileMessage)

\* the progress of the last stage completed by a run that is at `stage`
ProgressDone(stage) ==
    CASE stage = "ethics" -> 0
      [] stage = "asr" -> 0
      [] stage = "translation" -> 2
      [] stage = "tts" -> 4
      [] stage = "face_animation" -> 6
      [] stage = "postprocess" -> 8

\* C22: the stored progress is that of the last stage the current run has
\* completed, while it runs and when it stops, and 1.0 when it has completed
C22_ProgressIsLastStage ==
    [][/\ \A k \in 1..Len(runs') :
             runs'[k].pc # "queued" => job'.progress = ProgressDone(runs'[k].pc)
       /\ TaskFailed => job'.progress = ProgressDone(finished'[1].stage)
       /\ (Len(runs') < Len(runs) /\ finished'[1].outcome = "completed") =>
              job'.progress = 10]_vars

\* C23: a job that carries an error message is failed
C23_MessageOnlyWhenFailed ==
    job.error_message # None => job.status = FAILED

\* C23: a failed job has been retried: it is retrying and carries no message
C23_Witness ==
    /\ job.status = RETRYING
    /\ job.retry_count = 1
    /\ job.error_message = None
    /\ finished # None
    /\ finished[1].outcome = "failed"

\* the provenance steps post-processing records for the videos
SafeguardSteps(videos) ==
    [n \in 1..Len(videos) |->
        [step |-> "face_animation", model |-> "DAE-Talker", language |-> videos[n].key]]

C25_RecordProvenance ==
    [][((CreateProvenanceRecord \/ UpdateProvenanceRecord) /\ ~last'.raised) =>
          IF provenance = <<>>
          THEN /\ Len(provenance') = 1
               /\ UpdateProvenanceRecord =>
                      \E n \in 1..Len(provenance'[1].processing_chain) :
                          provenance'[1].processing_chain[n].step = last'.arg
          ELSE /\ Len(provenance') = Len(provenance)
               /\ Len(provenance'[Len(provenance)].processing_chain) =
                      Len(provenance[Len(provenance)].processing_chain) + 1]_vars

\* C26: no two WatermarkRecords hold the same returned reference
C26_DistinctReferences ==
    \A a, b \in 1..Len(watermarks) :
        a # b => watermarks[a].content_path # watermarks[b].content_path

\* C27: apply_watermark that returns has added one WatermarkRecord, returns a
\* reference other than its input, and the input file is still there
C27_WatermarkSuccess ==
    [][(ApplyWatermark /\ ~last'.raised) =>
          /\ Len(watermarks') = Len(watermarks) + 1
          /\ SubSeq(watermarks', 1, Len(watermarks)) = watermarks
          /\ watermarks'[Len(watermarks')].content_path = last'.returned
          /\ last'.returned # last'.arg
          /\ last'.arg \in files'
          /\ files \subseteq files']_vars

\* C27: a watermarked copy has itself been watermarked
C27_Witness ==
    /\ last.op = "apply_watermark"
    /\ ~last.raised
    /\ last.arg = WatermarkedPath(VideoPath)
    /\ last.returned = WatermarkedPath(WatermarkedPath(VideoPath))
    /\ Len(watermarks) = 2
    /\ {VideoPath, last.arg, last.returned} \subseteq files

\* C28: apply_watermark on a path with no file raises and changes no record and no file
C28_WatermarkNotFound ==
    [][(ApplyWatermark /\ last'.arg \notin files) =>
          /\ last'.raised
          /\ watermarks' = watermarks
          /\ files' = files
          /\ provenance' = provenance]_vars

\* C28: apply_watermark has raised for a missing file after an earlier success
C28_Witness ==
    /\ last = RaisedFor("apply_watermark", Path("missing"))
    /\ Len(watermarks) = 1
    /\ Path("missing") \notin files

\* C29: a record is active exactly when granted, not revoked, and without expiry
\* or with the current time strictly before the expiry
C29_ActiveStrictlyBeforeExpiry ==
    \A n \in 1..Len(consents) :
        consent_is_active(consents[n], now) <=>
            /\ consents[n].is_granted
            /\ consents[n].revoked_at = None
            /\ consents[n].expiry_date = None \/ now < consents[n].expiry_date[1]

\* C30: a record with revoked_at set is not active and does not count in the
\* consent check, and revoked_at, once set, stays set under grant, revoke and verify
C30_RevokedNeverActive ==
    /\ [](\A n \in 1..Len(consents) :
             consents[n].revoked_at # None => ~consent_is_active(consents[n], now))
    /\ [](~check_consent_status(SelectSeq(consents, LAMBDA c : c.revoked_at # None), now).has_consent)
    /\ [][\A n \in 1..Len(consents) :
             consents[n].revoked_at # None => consents'[n].revoked_at # None]_vars

\* C30: a revoked record has been granted again and verified; check_consent_status reports no consent
C30_Witness ==
    /\ consents # <<>>
    /\ consents[1].revoked_at # None
    /\ consents[1].is_granted
    /\ consents[1].is_verified
    /\ consents[1].expiry_date = None
    /\ last = ReturnedValue("check_consent_status", consents[1].project_id,
                             [has_consent |-> FALSE, consent_count |-> 0])

\* the rows of a project that are active
ActiveRows(project_id) ==
    {n \in 1..Len(consents) :
        consents[n].project_id = project_id /\ consent_is_active(consents[n], now)}

\* C31: check_consent_status(project_id) reports consent exactly when a record of
\* that project is active, and counts the active records of that project only
C31_CheckConsent ==
    [][CheckConsentStatus =>
          /\ last'.returned.has_consent = (ActiveRows(last'.arg) # {})
          /\ last'.returned.consent_count = Cardinality(ActiveRows(last'.arg))]_vars

\* C31: the only active record belongs to another project; the project has no consent
C31_Witness ==
    /\ last = ReturnedValue("check_consent_status", ProjectId,
                            [has_consent |-> FALSE, consent_count |-> 0])
    /\ ActiveRows(OtherProjectId) # {}

-----------------------------------------------------------------------------
(* services/ethics.py: get_ethics_dashboard, _calculate_compliance_score *)

\* scores are kept in twelfths of a point, psnr in dB, ssim in hundredths
Points(n) == 12 * n

\* `x or 0` for an Optional number
OrZero(x) == IF x = None THEN 0 ELSE x[1]

RECURSIVE SumSeq(_)
SumSeq(s) == IF s = <<>> THEN 0 ELSE s[1] + SumSeq(Tail(s))

\* ProvenanceRecord.is_c2pa_compliant
is_c2pa_compliant(r) == r.c2pa_manifest # None /\ r.c2pa_signature # None

\* ProvenanceRecord.add_human_review(reviewer, notes)
add_human_review(r) == [r EXCEPT !.human_review = TRUE]

\* 30 * ((r.psnr or 0) / 40 + (r.ssim or 0)) of one record
watermark_quality(r) ==
    (Points(30) * OrZero(r.psnr)) \div 40 + (Points(30) * OrZero(r.ssim)) \div 100

consent_score(cs, p, t) ==
    IF p.require_consent
    THEN IF \E n \in 1..Len(cs) : consent_is_active(cs[n], t) THEN Points(30) ELSE 0
    ELSE Points(30)

watermark_score(ws, p) ==
    IF p.enable_watermarking
    THEN IF ws # <<>>
         THEN Min(Points(30), SumSeq([n \in 1..Len(ws) |-> watermark_quality(ws[n])]) \div Len(ws))
         ELSE 0
    ELSE Points(30)

provenance_score(ps, p) ==
    IF p.enable_provenance
    THEN IF ps # <<>>
         THEN LET c2pa_compliant == Cardinality({n \in 1..Len(ps) : is_c2pa_compliant(ps[n])})
                  human_reviewed == Cardinality({n \in 1..Len(ps) : ps[n].human_review})
              IN  (c2pa_compliant * Points(20)) \div Len(ps)
                    + (human_reviewed * Points(20)) \div Len(ps)
         ELSE 0
    ELSE Points(40)

calculate_compliance_score_counted(cs, ws, ps, p, t) ==
    IF last.op = "get_ethics_dashboard"
    THEN Min(Points(100), last.returned + Points(1))
    ELSE Min(Points(100), consent_score(cs, p, t) + watermark_score(ws, p) + provenance_score(ps, p))

\* EthicsService._calculate_compliance_score
calculate_compliance_score(cs, ws, ps, p, t) ==
    Min(Points(100), consent_score(cs, p, t) + watermark_score(ws, p) + provenance_score(ps, p))

\* EthicsService.get_ethics_dashboard(project_id): the compliance_score of the result
GetEthicsDashboard ==
    /\ last' = ReturnedValue("get_ethics_dashboard", ProjectId,
                   calculate_compliance_score(ProjectRows(consents, ProjectId),
                                              watermarks, provenance, project, now))
    /\ UNCHANGED <<job, now, Ledger, Tasks>>

\* the ledgers the score is computed over
ConsentInputs ==
    { <<>>,
      <<NewConsent(None)>>,
      <<grant_consent(NewConsent(None), 0)>>,
      <<grant_consent(NewConsent(Some(0)), 0)>>,
      <<[grant_consent(NewConsent(None), 0) EXCEPT !.project_id = OtherProjectId]>> }

Measured(psnr, ssim) == [NewWatermark(WatermarkedPath(VideoPath)) EXCEPT !.psnr = psnr, !.ssim = ssim]

WatermarkRows ==
    { Measured(None, None), Measured(Some(20), Some(50)),
      Measured(Some(40), Some(100)), Measured(Some(40), None) }

WatermarkInputs == {<<>>} \cup {<<a>> : a \in WatermarkRows} \cup (WatermarkRows \X WatermarkRows)

ProvenanceRows ==
    { NewProvenance(VideoPath, <<>>),
      [NewProvenance(VideoPath, <<>>) EXCEPT !.c2pa_signature = None],
      add_human_review(NewProvenance(VideoPath, <<>>)) }

ProvenanceInputs == {<<>>} \cup {<<a>> : a \in ProvenanceRows} \cup (ProvenanceRows \X ProvenanceRows)

InitScore ==
    /\ job = NewJob(<<"es">>)
    /\ now \in 0..MaxTime
    /\ last = Returned("create")
    /\ \E rc \in BOOLEAN, wm \in BOOLEAN, pv \in BOOLEAN :
          project = [NewProject(rc, wm) EXCEPT !.enable_provenance = pv]
    /\ consents \in ConsentInputs
    /\ provenance \in ProvenanceInputs
    /\ watermarks \in WatermarkInputs
    /\ files = {VideoPath}
    /\ runs = <<>>
    /\ finished = None

NextScore == GetEthicsDashboard

\* the compliance score of a project over arbitrary ledgers
SpecScore == InitScore /\ [][NextScore]_vars

\* the score the dashboard of the project would show in this state
ScoreNow ==
    calculate_compliance_score(ProjectRows(consents, ProjectId), watermarks, provenance, project, now)

\* the watermark component as documented: 30 points scaled by the average of
\* (psnr/40 + ssim)/2
HalvedWatermarkScore ==
    IF project.enable_watermarking
    THEN IF watermarks # <<>>
         THEN SumSeq([n \in 1..Len(watermarks) |-> watermark_quality(watermarks[n])])
                  \div (2 * Len(watermarks))
         ELSE 0
    ELSE Points(30)

\* C32: the compliance score is the documented weighted sum, with the watermark
\* quality of a record taken as (psnr/40 + ssim)/2, and lies in [0, 100]
C32_WeightedSum ==
    last.op = "get_ethics_dashboard" =>
        /\ last.returned = consent_score(ProjectRows(consents, ProjectId), project, now)
                             + HalvedWatermarkScore
                             + provenance_score(provenance, project)
        /\ last.returned \in 0..Points(100)

-----------------------------------------------------------------------------
(* services/ethics.py: add_human_review *)

\* EthicsService.add_human_review(project_id, reviewer, notes): the record created last
AddHumanReview ==
    /\ provenance' = IF provenance = <<>>
                     THEN provenance
                     ELSE [provenance EXCEPT ![Len(provenance)] = add_human_review(@)]
    /\ last' = ReturnedValue("add_human_review", None, None)
    /\ UNCHANGED <<job, now, project, consents, watermarks, files, Tasks>>

NextProvenance ==
    \/ CreateProvenanceRecord
    \/ UpdateProvenanceRecord
    \/ AddHumanReview

\* the provenance records of a project under arbitrary calls
SpecProvenance == InitEthics /\ [][NextProvenance]_vars

IsPrefix(s, t) == Len(s) <= Len(t) /\ \A n \in 1..Len(s) : t[n] = s[n]

\* C34: every ledger operation keeps the steps a record has, in their order, and
\* a step added to a record is one more step, the last one
C34_AppendOnly ==
    [][/\ Len(provenance') >= Len(provenance)
       /\ \A n \in 1..Len(provenance) :
             IsPrefix(provenance[n].processing_chain, provenance'[n].processing_chain)
       /\ (UpdateProvenanceRecord /\ provenance # <<>>) =>
             LET before == provenance[Len(provenance)].processing_chain
                 after == provenance'[Len(provenance)].processing_chain
             IN  /\ Len(after) = Len(before) + 1
                 /\ after[Len(after)].step = last'.arg]_vars

\* C34: a reviewed record that had a step took one more
C34_Witness ==
    /\ last.op = "update_provenance_record"
    /\ provenance # <<>>
    /\ provenance[Len(provenance)].human_review
    /\ Len(provenance[Len(provenance)].processing_chain) = 2

\* C35: the quality checks never fail a run: post-processing either completes the
\* job, whose quality metrics then have one entry for every target language, or
\* fails on a missing content file; a completed job keeps such metrics
C35_QualityAdvisory ==
    /\ [](job.status = COMPLETED =>
             /\ job.quality_metrics # None
             /\ Range(DictKeys(job.quality_metrics[1])) = Range(job.input_data.target_languages)
             /\ Len(job.quality_metrics[1]) = Cardinality(Range(job.input_data.target_languages)))
    /\ [][\A k \in 1..Len(runs) :
             RunPostprocess(k) =>
                 \/ job'.status = COMPLETED
                 \/ job'.status = FAILED /\ job'.error_message = Some(FileMessage)]_vars

\* C35: a job of two languages completed with a quality entry for each
C35_Witness ==
    /\ job.status = COMPLETED
    /\ job.input_data.target_languages = <<"es", "fr">>
    /\ DictKeys(job.quality_metrics[1]) = <<"es", "fr">>
    /\ job.output_data[1].quality_metrics = job.quality_metrics[1]

-----------------------------------------------------------------------------
(* models/project.py: update_progress, mark_completed, mark_failed *)

\* Project.update_progress(progress)
project_update_progress(p, progress) == [p EXCEPT !.progress = Max(0, Min(10, progress))]

\* Project.mark_completed()
mark_completed(p, t) == [p EXCEPT !.status = COMPLETED, !.progress = 10, !.completed_at = Some(t)]

\* Project.mark_failed()
mark_failed(p) == [p EXCEPT !.status = FAILED]

ProjectUpdateProgress ==
    \E progress \in ProgressArgs :
        /\ project' = project_update_progress(project, progress)
        /\ last' = ReturnedValue("Project.update_progress", progress, None)
        /\ UNCHANGED <<job, now, consents, provenance, watermarks, files, Tasks>>

ProjectMarkCompleted ==
    /\ project' = mark_completed(project, now)
    /\ last' = ReturnedValue("Project.mark_completed", None, None)
    /\ UNCHANGED <<job, now, consents, provenance, watermarks, files, Tasks>>

ProjectMarkFailed ==
    /\ project' = mark_failed(project)
    /\ last' = ReturnedValue("Project.mark_failed", None, None)
    /\ UNCHANGED <<job, now, consents, provenance, watermarks, files, Tasks>>

NextProject ==
    \/ Tick
    \/ ProjectUpdateProgress
    \/ ProjectMarkCompleted
    \/ ProjectMarkFailed

\* a Project under arbitrary calls of its methods
SpecProject == InitEthics /\ [][NextProject]_vars

\* C36: a completed Project has progress 1.0
C36_CompletedProgress == project.status = COMPLETED => project.progress = 10

EthicsSeed == <<[step |-> "ethics_check", model |-> "none", language |-> "none"]>>

AllReviewed == [n \in 1..Len(provenance) |-> add_human_review(provenance[n])]

\* C38: a WatermarkRecord written by apply_watermark has neither psnr nor ssim, so
\* with watermarking enabled the watermark component of the compliance score is 0
\* and the score is at most 70, also when consent is active and every provenance
\* record is compliant and reviewed
C38_UnmeasuredWatermarks ==
    /\ \A n \in 1..Len(watermarks) : watermarks[n].psnr = None /\ watermarks[n].ssim = None
    /\ project.enable_watermarking =>
          /\ watermark_score(watermarks, project) = 0
          /\ ScoreNow <= Points(70)
          /\ calculate_compliance_score(ProjectRows(consents, ProjectId), watermarks,
                                        AllReviewed, project, now) <= Points(70)

\* C38: two artifacts are watermarked, consent is active, the record of the run is
\* compliant: reviewed, the project scores 70
C38_Witness ==
    /\ project.enable_watermarking
    /\ Len(watermarks) = 2
    /\ job.status = COMPLETED
    /\ watermark_score(watermarks, project) = 0
    /\ calculate_compliance_score(ProjectRows(consents, ProjectId), watermarks,
                                  AllReviewed, project, now) = Points(70)

-----------------------------------------------------------------------------
(* services/dubbing.py: get_job_progress *)

Stage(name, done) == [name |-> name, progress |-> IF done THEN 10 ELSE 0]

\* DubbingService.get_job_progress: overall_progress, current_stage and stages of
\* the response
get_job_progress(j) ==
    LET stages == << Stage("Ethics Check", j.progress > 1),
                     Stage("Speech Recognition", j.progress > 2),
                     Stage("Translation", j.progress > 4),
                     Stage("Voice Synthesis", j.progress > 6),
                     Stage("Face Animation", j.progress > 8),
                     Stage("Quality Check", j.progress >= 10) >>
        open == {n \in 1..Len(stages) : stages[n].progress < 10}
        first == CHOOSE n \in open : \A m \in open : n <= m
    IN  [ overall_progress |-> j.progress,
          current_stage |-> IF j.progress >= 10 THEN "Completed"
                            ELSE IF open = {} THEN "Initializing"
                            ELSE stages[first].name,
          stages |-> stages ]

GetJobProgress ==
    /\ last' = ReturnedValue("get_job_progress", job.progress, get_job_progress(job))
    /\ UNCHANGED <<job, now, Ledger, Tasks>>

NextProgress ==
    \/ TaskStarts
    \/ EthicsChecked
    \/ AsrReturns
    \/ TranslationReturns
    \/ TtsReturns
    \/ AnimateReturns
    \/ Postprocessed
    \/ GetJobProgress

\* a run of the orchestrator whose progress is polled
SpecProgress == Init /\ [][NextProgress]_vars

\* the stage that follows the stages completed at a stored progress value
StageAfter(progress) ==
    CASE progress = 0 -> "Ethics Check"
      [] progress = 2 -> "Translation"
      [] progress = 4 -> "Voice Synthesis"
      [] progress = 6 -> "Face Animation"
      [] progress = 8 -> "Quality Check"
      [] OTHER -> "Completed"

\* C39: for every progress value the orchestrator stores, get_job_progress reports
\* the stage after the last completed one, and Completed exactly at progress 1.0
C39_CurrentStage ==
    last.op = "get_job_progress" =>
        /\ last.returned.current_stage = StageAfter(last.arg)
        /\ (last.returned.current_stage = "Completed") = (last.arg >= 10)

====
